---- MODULE Spec2Model ----
(***************************************************************************)
(* Model of rbus-datamodels.c: the typed attribute registry (g_dataModels), *)
(* the schema loader (loadDataModelsFromJson), the generic bus callbacks    *)
(* (getHandler, setHandler), the memory TTL cache (update_memory_cache)     *)
(* and the startup sequence of main.                                        *)
(***************************************************************************)
EXTENDS Integers, Sequences, FiniteSets, TLC

VARIABLES
    root,               \* the parsed schema file handed to the loader
    build,              \* what the build does on an out-of-range double->integer cast
    pc,                 \* position of main
    exitCode,           \* the process's exit code, -1 while it runs
    g_dataModels,       \* the registry array, NULL or a sequence of DataModel
    g_numDataModels,    \* number of schema-declared entries
    g_totalDataModels,  \* schema-declared + built-in entries
    g_rbusHandle,       \* NULL or the open bus handle
    g_dataElements,     \* NULL or the array of bus elements
    registered,         \* the elements the bus holds registered
    heap,               \* the string buffers: address -> [live, str]
    g_mem_cache,        \* the memory snapshot
    now,                \* the wall clock, in seconds
    g_running,          \* the shutdown flag, cleared by the signal handler
    pubIdx,             \* index of the next entry the startup loop publishes
    memErr,             \* invalid releases and reads of released buffers so far
    ooms,               \* allocation failures the callbacks have met so far
    last,               \* the last callback the bus invoked and what it returned
    inflight            \* the handler calls that run step by step on bus threads

vars == << root, build, pc, exitCode, g_dataModels, g_numDataModels,
           g_totalDataModels, g_rbusHandle, g_dataElements, registered,
           heap, g_mem_cache, now, g_running, pubIdx, memErr, ooms, last,
           inflight >>

NULL == 0

\* a NULL array pointer (g_dataModels, g_dataElements)
NullArray == << >>

\* bounds of the model
MaxRecords == 2

MaxLoadRecords == 2

StartTime == 6

MaxTicks == 12

\* at most this many allocations fail inside the callbacks of one run
MaxOom == 1

\* at most this many handler calls are started step by step in one run
MaxCalls == 5

----------------------------------------------------------------------------
(* Numbers.  A number is [neg, m, h]: sign, magnitude of the integer part  *)
(* as a sequence of bits (most significant first, no leading zero), and h  *)
(* = 1 when the number has a fractional part of one half.  The widths of    *)
(* the program (2^32, 2^63, 2^64) do not fit the model checker's integers, *)
(* so every number of the program is kept in this form.                     *)

Zeros(k) == [i \in 1..k |-> 0]

Ones(k) == [i \in 1..k |-> 1]

RECURSIVE Bits(_)
Bits(n) == IF n = 0 THEN << >> ELSE Append(Bits(n \div 2), n % 2)

RECURSIVE BitsToNat(_)
BitsToNat(m) ==
    IF m = << >> THEN 0
    ELSE 2 * BitsToNat(SubSeq(m, 1, Len(m) - 1)) + m[Len(m)]

RECURSIVE Inc(_)
Inc(m) ==
    IF m = << >> THEN << 1 >>
    ELSE IF m[Len(m)] = 0 THEN [m EXCEPT ![Len(m)] = 1]
    ELSE Append(Inc(SubSeq(m, 1, Len(m) - 1)), 0)

Num(neg, m, h) == [neg |-> neg /\ (m # << >> \/ h = 1), m |-> m, h |-> h]

IntNum(n) == IF n < 0 THEN Num(TRUE, Bits(-n), 0) ELSE Num(FALSE, Bits(n), 0)

HalfNum(n) == IF n < 0 THEN Num(TRUE, Bits(-n), 1) ELSE Num(FALSE, Bits(n), 1)

Pow2(k) == << 1 >> \o Zeros(k)

\* 2^k + n, for 0 <= n < 2^k
Pow2Plus(k, n) == << 1 >> \o Zeros(k - Len(Bits(n))) \o Bits(n)

Zero == IntNum(0)

\* magnitude comparison: |x| < |y|
MagLess(x, y) ==
    \/ Len(x.m) < Len(y.m)
    \/ /\ Len(x.m) = Len(y.m)
       /\ \E i \in 1..Len(x.m) :
             /\ x.m[i] < y.m[i]
             /\ \A j \in 1..(i - 1) : x.m[j] = y.m[j]
    \/ x.m = y.m /\ x.h < y.h

NumLess(x, y) ==
    IF x.neg /\ ~y.neg THEN TRUE
    ELSE IF ~x.neg /\ y.neg THEN FALSE
    ELSE IF x.neg THEN MagLess(y, x)
    ELSE MagLess(x, y)

NumLE(x, y) == x = y \/ NumLess(x, y)

\* round to nearest, ties to even, keeping p significant bits: what a
\* conversion to a binary floating-point format of precision p does
RoundTo(x, p) ==
    LET L == Len(x.m) IN
    IF L < p THEN x
    ELSE IF L = p THEN
        IF x.h = 1 /\ x.m[L] = 1 THEN Num(x.neg, Inc(x.m), 0)
        ELSE Num(x.neg, x.m, 0)
    ELSE
        LET kept   == SubSeq(x.m, 1, p)
            guard  == x.m[p + 1]
            sticky == x.h = 1 \/ \E i \in (p + 2)..L : x.m[i] = 1
            up     == guard = 1 /\ (sticky \/ kept[p] = 1)
            top    == IF up THEN Inc(kept) ELSE kept
        IN  Num(x.neg, top \o Zeros(L - p), 0)

\* strtod in cJSON_Parse: a JSON number literal becomes a double
ToDouble(x) == RoundTo(x, 53)

\* (float)val
ToFloat(x) == RoundTo(x, 24)

\* conversion of a double to an integer type truncates toward zero
Truncate(x) == Num(x.neg, x.m, 0)

\* the limits of <stdint.h>
INT32_MAX == Num(FALSE, Ones(31), 0)

INT32_MIN == Num(TRUE, Pow2(31), 0)

UINT32_MAX == Num(FALSE, Ones(32), 0)

INT64_MAX == Num(FALSE, Ones(63), 0)

INT64_MIN == Num(TRUE, Pow2(63), 0)

UINT64_MAX == Num(FALSE, Ones(64), 0)

UINT8_MAX == Num(FALSE, Ones(8), 0)

\* (unsigned int)x for a uint64_t x given as a natural number: the low 32 bits
CastUInt32(x) ==
    LET b == Bits(x) IN
    IF Len(b) <= 32 THEN BitsToNat(b) ELSE BitsToNat(SubSeq(b, Len(b) - 31, Len(b)))

----------------------------------------------------------------------------
(* ValueType and the built-in data models.                                   *)

TYPE_STRING == 0

TYPE_INT == 1

TYPE_UINT == 2

TYPE_BOOL == 3

TYPE_DATETIME == 4

TYPE_BASE64 == 5

TYPE_LONG == 6

TYPE_ULONG == 7

TYPE_FLOAT == 8

TYPE_DOUBLE == 9

TYPE_BYTE == 10

MEMORY_CACHE_TIMEOUT == 5

IsStringType(t) == t \in {TYPE_STRING, TYPE_DATETIME, TYPE_BASE64}

SerialName == "Device.DeviceInfo.SerialNumber"

MemTotalName == "Device.DeviceInfo.MemoryStatus.Total"

\* const DataModel gDataModels[]: the static templates; a string value is the
\* literal's text, duplicated when the template is copied into the registry
gDataModels == <<
    [name |-> SerialName,
     type |-> TYPE_STRING, value |-> [lit |-> "unknown"],
     getHandler |-> "get_system_serial_number", setHandler |-> "NULL"],
    [name |-> "Device.DeviceInfo.X_RDKCENTRAL-COM_SystemTime",
     type |-> TYPE_STRING, value |-> [lit |-> "unknown"],
     getHandler |-> "get_system_time", setHandler |-> "NULL"],
    [name |-> "Device.DeviceInfo.UpTime",
     type |-> TYPE_STRING, value |-> [lit |-> "unknown"],
     getHandler |-> "get_system_uptime", setHandler |-> "NULL"],
    [name |-> "Device.DeviceInfo.X_COMCAST-COM_CM_MAC",
     type |-> TYPE_STRING, value |-> [lit |-> "unknown"],
     getHandler |-> "get_mac_address", setHandler |-> "NULL"],
    [name |-> MemTotalName,
     type |-> TYPE_UINT, value |-> [num |-> Zero],
     getHandler |-> "get_memory_total", setHandler |-> "NULL"],
    [name |-> "Device.DeviceInfo.MemoryStatus.Used",
     type |-> TYPE_UINT, value |-> [num |-> Zero],
     getHandler |-> "get_memory_used", setHandler |-> "NULL"],
    [name |-> "Device.DeviceInfo.MemoryStatus.Free",
     type |-> TYPE_UINT, value |-> [num |-> Zero],
     getHandler |-> "get_memory_free", setHandler |-> "NULL"],
    [name |-> "Device.Time.CurrentLocalTime",
     type |-> TYPE_DATETIME, value |-> [lit |-> "unknown"],
     getHandler |-> "get_local_time", setHandler |-> "NULL"] >>

NumBuiltIns == Len(gDataModels)

----------------------------------------------------------------------------
(* The heap of string buffers.  heap[a] = [live, str]; NULL is address 0.   *)

\* malloc returns an address that is not in use
FreshAddr(hp) ==
    IF \E a \in 1..Len(hp) : ~hp[a].live
    THEN CHOOSE a \in 1..Len(hp) : ~hp[a].live /\ \A b \in 1..(a - 1) : hp[b].live
    ELSE Len(hp) + 1

\* strdup(s): a fresh live buffer holding s, or NULL when the allocation fails
Strdup(hp, s, fails) ==
    IF fails THEN [heap |-> hp, p |-> NULL]
    ELSE LET a == FreshAddr(hp)
             cell == [live |-> TRUE, str |-> s]
         IN  [heap |-> IF a > Len(hp) THEN Append(hp, cell) ELSE [hp EXCEPT ![a] = cell],
              p |-> a]

\* the heap without the unused addresses above its last live buffer
RECURSIVE Trim(_)
Trim(hp) ==
    IF hp = << >> \/ hp[Len(hp)].live THEN hp ELSE Trim(SubSeq(hp, 1, Len(hp) - 1))

\* free(p): free(NULL) does nothing; the buffer's content is gone afterwards
Free(hp, p) ==
    IF p = NULL THEN hp ELSE Trim([hp EXCEPT ![p] = [live |-> FALSE, str |-> ""]])

----------------------------------------------------------------------------
(* The schema file as cJSON hands it to the loader.  A JSON value is        *)
(* [j |-> "absent"], [j |-> "string", s], [j |-> "number", lit],            *)
(* [j |-> "true"], [j |-> "false"]; an array item is an object of the       *)
(* three members name, type and value, or something that is no object.      *)

JAbsent == [j |-> "absent"]

JString(s) == [j |-> "string", s |-> s]

JNumber(x) == [j |-> "number", lit |-> x]

JTrue == [j |-> "true"]

JFalse == [j |-> "false"]

JObject(n, t, v) == [obj |-> TRUE, name |-> n, type |-> t, value |-> v]

JNotObject == [obj |-> FALSE]

\* cJSON_GetObjectItem found the member
Present(x) == x.j # "absent"

\* the cJSON predicates; each is false of a member that is absent (NULL)
cJSON_IsString(x) == x.j = "string"

cJSON_IsNumber(x) == x.j = "number"

cJSON_IsTrue(x) == x.j = "true"

cJSON_IsFalse(x) == x.j = "false"

\* the double cJSON parsed the literal into
cJSON_GetNumberValue(x) == ToDouble(x.lit)

\* a name of 300 bytes and its first MAX_NAME_LEN - 1 = 255 bytes
LongName == "L300"

LongNamePrefix == "L255"

\* strncpy(dst, name, MAX_NAME_LEN - 1); dst[MAX_NAME_LEN - 1] = '\0'
CopyName(name) == IF name = LongName THEN LongNamePrefix ELSE name

\* line 695: the declaration check of one record
ValidDeclaration(item) ==
    /\ cJSON_IsString(item.name)
    /\ cJSON_IsNumber(item.type)
    /\ ~NumLess(cJSON_GetNumberValue(item.type), Zero)
    /\ ~NumLess(IntNum(TYPE_BYTE), cJSON_GetNumberValue(item.type))

\* (int)cJSON_GetNumberValue(type_obj)
TypeOf(item) == BitsToNat(Truncate(cJSON_GetNumberValue(item.type)).m)

\* the range checks of lines 728, 744, 763, 779 and 801; the integer limit is
\* converted to double for the comparison, as C's usual conversions do
InRangeInt(val) == NumLE(ToDouble(INT32_MIN), val) /\ NumLE(val, ToDouble(INT32_MAX))

InRangeUInt(val) == NumLE(Zero, val) /\ NumLE(val, ToDouble(UINT32_MAX))

InRangeLong(val) == NumLE(ToDouble(INT64_MIN), val) /\ NumLE(val, ToDouble(INT64_MAX))

InRangeULong(val) == NumLE(Zero, val) /\ NumLE(val, ToDouble(UINT64_MAX))

InRangeByte(val) == NumLE(Zero, val) /\ NumLE(val, ToDouble(UINT8_MAX))

\* (int64_t)val: defined when the truncated value fits; otherwise the result
\* is whatever the build's conversion instruction leaves
CastInt64(val, bld) ==
    LET t == Truncate(val) IN
    IF NumLE(INT64_MIN, t) /\ NumLE(t, INT64_MAX) THEN t
    ELSE IF bld = "saturate" THEN (IF t.neg THEN INT64_MIN ELSE INT64_MAX)
    ELSE INT64_MIN

\* (uint64_t)val
CastUInt64(val, bld) ==
    LET t == Truncate(val) IN
    IF NumLE(Zero, t) /\ NumLE(t, UINT64_MAX) THEN t
    ELSE IF bld = "saturate" THEN (IF t.neg THEN Zero ELSE UINT64_MAX)
    ELSE Zero

\* the numeric cases of the switch of lines 712-814, for a value that is a
\* number val: ok = FALSE is an out-of-range literal
NumericValue(type, val, bld) ==
    CASE type = TYPE_INT    -> [ok |-> InRangeInt(val), init |-> [num |-> Truncate(val)]]
      [] type = TYPE_UINT   -> [ok |-> InRangeUInt(val), init |-> [num |-> Truncate(val)]]
      [] type = TYPE_LONG   -> [ok |-> InRangeLong(val), init |-> [num |-> CastInt64(val, bld)]]
      [] type = TYPE_ULONG  -> [ok |-> InRangeULong(val), init |-> [num |-> CastUInt64(val, bld)]]
      [] type = TYPE_FLOAT  -> [ok |-> TRUE, init |-> [num |-> ToFloat(val)]]
      [] type = TYPE_DOUBLE -> [ok |-> TRUE, init |-> [num |-> val]]
      [] OTHER              -> [ok |-> InRangeByte(val), init |-> [num |-> Truncate(val)]]

\* ItemValue, had a value of the wrong JSON type been refused and a bool been
\* read from any value that is not false
ItemValue_Strict(type, value_obj, bld) ==
    IF IsStringType(type) THEN
        [ok |-> ~Present(value_obj) \/ cJSON_IsString(value_obj),
         init |-> [dup |-> IF Present(value_obj) /\ cJSON_IsString(value_obj)
                           THEN value_obj.s ELSE ""]]
    ELSE IF type = TYPE_BOOL THEN
        [ok |-> TRUE,
         init |-> [boolVal |-> Present(value_obj) /\ ~cJSON_IsFalse(value_obj)]]
    ELSE IF Present(value_obj) /\ cJSON_IsNumber(value_obj) THEN
        NumericValue(type, cJSON_GetNumberValue(value_obj), bld)
    ELSE [ok |-> ~Present(value_obj), init |-> [num |-> Zero]]

\* the switch of lines 712-814 for one record: init is the entry's value, for
\* a string the text still to be duplicated
ItemValue(type, value_obj, bld) ==
    IF IsStringType(type) THEN
        [ok |-> TRUE,
         init |-> [dup |-> IF Present(value_obj) /\ cJSON_IsString(value_obj)
                           THEN value_obj.s ELSE ""]]
    ELSE IF type = TYPE_BOOL THEN
        [ok |-> TRUE,
         init |-> [boolVal |-> IF Present(value_obj)
                                  /\ (cJSON_IsTrue(value_obj) \/ cJSON_IsFalse(value_obj))
                               THEN cJSON_IsTrue(value_obj) ELSE FALSE]]
    ELSE IF Present(value_obj) /\ cJSON_IsNumber(value_obj) THEN
        NumericValue(type, cJSON_GetNumberValue(value_obj), bld)
    ELSE [ok |-> TRUE, init |-> [num |-> Zero]]

\* an entry of the registry
DataModel(name, type, value, getHandler, setHandler) ==
    [name |-> name, type |-> type, value |-> value,
     getHandler |-> getHandler, setHandler |-> setHandler]

Failed(dms, hp) == [ok |-> FALSE, dms |-> dms, heap |-> hp]

\* the first loop of loadDataModelsFromJson (lines 681-815), from item i on,
\* with dms the entries filled so far; oom is the index of the entry whose
\* strdup fails (0: none does)
RECURSIVE LoadSchemaItems(_, _, _, _, _, _)
\* the entry of a string record, once its text is duplicated into d
StoreString(items, i, dms, d, oom, bld) ==
    IF d.p = NULL THEN Failed(dms, d.heap)
    ELSE LoadSchemaItems(items, i + 1,
            Append(dms, DataModel(CopyName(items[i].name.s), TypeOf(items[i]),
                                  [strVal |-> d.p], "NULL", "NULL")),
            d.heap, oom, bld)

\* lines 704-814 for a record whose declaration is valid and whose value is iv
StoreItem(items, i, dms, hp, oom, bld, iv) ==
    IF ~iv.ok THEN Failed(dms, hp)
    ELSE IF IsStringType(TypeOf(items[i]))
    THEN StoreString(items, i, dms, Strdup(hp, iv.init.dup, oom = i), oom, bld)
    ELSE LoadSchemaItems(items, i + 1,
            Append(dms, DataModel(CopyName(items[i].name.s), TypeOf(items[i]),
                                  iv.init, "NULL", "NULL")),
            hp, oom, bld)

LoadSchemaItems(items, i, dms, hp, oom, bld) ==
    IF i > Len(items) THEN [ok |-> TRUE, dms |-> dms, heap |-> hp]
    ELSE IF ~items[i].obj THEN Failed(dms, hp)
    ELSE IF ~ValidDeclaration(items[i]) THEN Failed(dms, hp)
    ELSE StoreItem(items, i, dms, hp, oom, bld,
                   ItemValue(TypeOf(items[i]), items[i].value, bld))

\* the second loop (lines 817-843): the built-in templates from j on
RECURSIVE LoadBuiltIns(_, _, _, _)
\* the entry of a string template, once its text is duplicated into d
StoreBuiltInString(j, dms, d, oom) ==
    IF d.p = NULL THEN Failed(dms, d.heap)
    ELSE LoadBuiltIns(j + 1,
            Append(dms, DataModel(CopyName(gDataModels[j].name), gDataModels[j].type,
                                  [strVal |-> d.p], gDataModels[j].getHandler,
                                  gDataModels[j].setHandler)),
            d.heap, oom)

LoadBuiltIns(j, dms, hp, oom) ==
    IF j > NumBuiltIns THEN [ok |-> TRUE, dms |-> dms, heap |-> hp]
    ELSE IF IsStringType(gDataModels[j].type)
    THEN StoreBuiltInString(j, dms,
            Strdup(hp, gDataModels[j].value.lit, oom = Len(dms) + 1), oom)
    ELSE LoadBuiltIns(j + 1,
            Append(dms, DataModel(CopyName(gDataModels[j].name), gDataModels[j].type,
                                  gDataModels[j].value, gDataModels[j].getHandler,
                                  gDataModels[j].setHandler)),
            hp, oom)

\* what loadDataModelsFromJson leaves in the globals, and its return value
Loaded(ok, dms, num, total, hp) ==
    [ok |-> ok, dms |-> IF ok THEN dms ELSE NullArray, num |-> num, total |-> total,
     heap |-> hp]

\* AfterBuiltIns, had the second loop copied template i + 1 into slot i
AfterBuiltIns_Shifted(b, num, total) ==
    Loaded(b.ok,
           IF b.ok THEN [i \in 1..Len(b.dms) |->
                            IF i <= num \/ i = Len(b.dms) THEN b.dms[i] ELSE b.dms[i + 1]]
                   ELSE b.dms,
           num, total, b.heap)

\* lines 845-846, after the second loop ended as b
AfterBuiltIns(b, num, total) == Loaded(b.ok, b.dms, num, total, b.heap)

\* lines 817-846, after the first loop ended as s
AfterSchemaItems(s, num, total, oom) ==
    IF ~s.ok THEN Loaded(FALSE, NullArray, num, total, s.heap)
    ELSE AfterBuiltIns(LoadBuiltIns(1, s.dms, s.heap, oom), num, total)

\* loadDataModelsFromJson.  arrayFails: the malloc of g_dataModels fails.
\* LoadResult, had line 664 not refused an array of no records
LoadResult_EmptyAccepted(rt, hp, arrayFails, oom, bld) ==
    IF rt.kind # "array" THEN Loaded(FALSE, NullArray, 0, 0, hp)
    ELSE IF arrayFails
    THEN Loaded(FALSE, NullArray, Len(rt.items), Len(rt.items) + NumBuiltIns, hp)
    ELSE AfterSchemaItems(LoadSchemaItems(rt.items, 1, << >>, hp, oom, bld),
                          Len(rt.items), Len(rt.items) + NumBuiltIns, oom)

LoadResult(rt, hp, arrayFails, oom, bld) ==
    IF rt.kind # "array" THEN Loaded(FALSE, NullArray, 0, 0, hp)
    ELSE IF Len(rt.items) = 0 THEN Loaded(FALSE, NullArray, 0, 0, hp)
    ELSE IF arrayFails
    THEN Loaded(FALSE, NullArray, Len(rt.items), Len(rt.items) + NumBuiltIns, hp)
    ELSE AfterSchemaItems(LoadSchemaItems(rt.items, 1, << >>, hp, oom, bld),
                          Len(rt.items), Len(rt.items) + NumBuiltIns, oom)

----------------------------------------------------------------------------
(* Values on the bus (rbusValue_t).                                          *)

RbusString(s) == [type |-> "RBUS_STRING", s |-> s]

RbusNum(t, n) == [type |-> t, num |-> n]

RbusBool(b) == [type |-> "RBUS_BOOLEAN", b |-> b]

\* a property that carries no value
RbusNone == [type |-> "RBUS_NONE"]

\* the rbus type each ValueType is read and written as (lines 856-886, 901-940)
RbusTypeOf(t) ==
    CASE IsStringType(t)  -> "RBUS_STRING"
      [] t = TYPE_INT     -> "RBUS_INT32"
      [] t = TYPE_UINT    -> "RBUS_UINT32"
      [] t = TYPE_BOOL    -> "RBUS_BOOLEAN"
      [] t = TYPE_LONG    -> "RBUS_INT64"
      [] t = TYPE_ULONG   -> "RBUS_UINT64"
      [] t = TYPE_FLOAT   -> "RBUS_SINGLE"
      [] t = TYPE_DOUBLE  -> "RBUS_DOUBLE"
      [] OTHER            -> "RBUS_BYTE"

\* rbusValue_ToString(value, NULL, 0): the text of a value, NULL (here the
\* value RbusNone has none) when there is no value to render
HasText(v) == v.type # "RBUS_NONE"

rbusValue_ToString(v) ==
    IF v.type = "RBUS_STRING" THEN v.s
    ELSE IF v.type = "RBUS_BOOLEAN" THEN (IF v.b THEN "1" ELSE "0")
    ELSE (IF v.num.neg THEN "-" ELSE "") \o ToString(BitsToNat(v.num.m))
         \o (IF v.num.h = 1 THEN ".5" ELSE "")

\* the switch of getHandler (lines 856-886): the bus value of an entry
ValueOfEntry(dm, hp) ==
    IF IsStringType(dm.type) THEN RbusString(hp[dm.value.strVal].str)
    ELSE IF dm.type = TYPE_BOOL THEN RbusBool(dm.value.boolVal)
    ELSE RbusNum(RbusTypeOf(dm.type), dm.value.num)

\* what an observer sees of entry i: its fields, and its value as a get would
\* render it (a string entry whose buffer is NULL has no value)
Observed(dms, hp, i) ==
    [name |-> dms[i].name, type |-> dms[i].type,
     getHandler |-> dms[i].getHandler, setHandler |-> dms[i].setHandler,
     value |-> IF IsStringType(dms[i].type) /\ dms[i].value.strVal = NULL
               THEN RbusNone ELSE ValueOfEntry(dms[i], hp)]

\* FindFirst, had the scan fallen through to entry 0 when no name matches
FindFirst_OrFirst(dms, n, name) ==
    IF \E i \in 1..n : dms[i].name = name
    THEN CHOOSE i \in 1..n : dms[i].name = name /\ \A k \in 1..(i - 1) : dms[k].name # name
    ELSE IF n >= 1 THEN 1 ELSE 0

\* for (i = 0; i < n; i++) if (strcmp(name, g_dataModels[i].name) == 0): the
\* index of the first entry of that name among the first n, 0 when none
FindFirst(dms, n, name) ==
    IF \E i \in 1..n : dms[i].name = name
    THEN CHOOSE i \in 1..n : dms[i].name = name /\ \A k \in 1..(i - 1) : dms[k].name # name
    ELSE 0

NoCall == [op |-> "none", by |-> "", pub |-> 0, name |-> "", arg |-> RbusNone, rc |-> "", out |-> RbusNone,
           idx |-> 0, delta |-> {}, expect |-> RbusNone, query |-> "none",
           prev |-> "none", age |-> 0, cacheDelta |-> FALSE, fresh |-> FALSE,
           fault |-> FALSE]

\* the bus threads a handler can run on
Threads == {1, 2}

\* a thread that runs no handler; pc: the handler's position, i: the entry
\* it found, str: the buffer rbusValue_ToString returned, p: the pointer read
IdleCall == [pc |-> "idle", i |-> 0, str |-> NULL, p |-> NULL]

\* no handler in flight; started: calls begun so far, overlapped: a call has
\* begun while another was in flight, replaced: sets completed before that
NoCalls == [calls |-> [t \in Threads |-> IdleCall], started |-> 0,
            overlapped |-> FALSE, replaced |-> 0]

\* the entries a call changed, as an observer sees them
Delta(dms, hp, dms2, hp2) ==
    {i \in 1..Len(dms) : Observed(dms, hp, i) # Observed(dms2, hp2, i)}

----------------------------------------------------------------------------
(* cleanup (lines 958-981).                                                  *)

\* the loop of lines 962-970 from entry i on: each string entry's buffer is
\* passed to free
FreeStrings(hp, dms, i) ==
    LET freed == { dms[k].value.strVal :
                     k \in { j \in i..Len(dms) : IsStringType(dms[j].type) } } \ {NULL}
    IN  Trim([a \in 1..Len(hp) |->
                 IF a \in freed THEN [live |-> FALSE, str |-> ""] ELSE hp[a]])

\* the state cleanup leaves: the heap, and the invalid releases it performed
Cleanup(handle, elems, dms, hp, reg) ==
    IF handle # NULL /\ elems # NullArray /\ dms # NullArray
    THEN [heap |-> FreeStrings(hp, dms, 1),
          err  |-> (IF ~reg THEN {"unreg_not_registered"} ELSE {})
                   \cup (IF \E i \in 1..Len(elems) : elems[i].name = "uninit"
                         THEN {"free_uninit_name"} ELSE {})]
    ELSE [heap |-> hp, err |-> {}]

----------------------------------------------------------------------------
(* main (lines 983-1083), one action per blocking step.                      *)

Alive == pc \notin {"exit", "aborted", "crashed"}

\* the entry whose strdup fails during the load: none (0) or any of them
OomChoices(rt) ==
    IF rt.kind = "array" THEN 0..(Len(rt.items) + NumBuiltIns) ELSE {0}

\* lines 990-993, the load having ended as r; fault: an allocation was made
\* to fail in a load that failed
Main_Loaded(r, fault) ==
    /\ last' = [NoCall EXCEPT !.op = "load", !.rc = IF r.ok THEN "true" ELSE "false",
                              !.fault = ~r.ok /\ fault]
    /\ g_dataModels' = r.dms
    /\ g_numDataModels' = r.num
    /\ g_totalDataModels' = r.total
    /\ heap' = r.heap
    /\ IF r.ok THEN pc' = "open" /\ exitCode' = exitCode
               ELSE pc' = "exit" /\ exitCode' = 1

Main_Load ==
    /\ pc = "load"
    /\ \E arrayFails \in BOOLEAN, oom \in OomChoices(root) :
          Main_Loaded(LoadResult(root, heap, arrayFails, oom, build),
                      arrayFails \/ oom # 0)
    /\ UNCHANGED << inflight, root, build, g_rbusHandle, g_dataElements, registered,
                    g_mem_cache, now, g_running, pubIdx, memErr, ooms >>

\* cleanup(); return code
CleanupAndExit(handle, elems, reg, code) ==
    LET c == Cleanup(handle, elems, g_dataModels, heap, reg) IN
    /\ heap' = c.heap
    /\ memErr' = memErr \cup c.err
    /\ g_dataElements' = NullArray
    /\ g_dataModels' = NullArray
    /\ g_rbusHandle' = NULL
    /\ registered' = FALSE
    /\ pc' = "exit"
    /\ exitCode' = code

\* the failure exits of main: cleanup(); return 1
FailWith(handle, elems, reg) == CleanupAndExit(handle, elems, reg, 1)

\* lines 995-1000
Main_RbusOpen ==
    /\ pc = "open"
    /\ \/ /\ g_rbusHandle' = 1
          /\ pc' = "elements"
          /\ UNCHANGED << exitCode, g_dataModels, g_dataElements, registered, heap, memErr >>
       \/ FailWith(NULL, g_dataElements, FALSE)
    /\ UNCHANGED << inflight, root, build, g_numDataModels, g_totalDataModels,
                    g_mem_cache, now, g_running, pubIdx, ooms, last >>

\* the element of entry i (lines 1011-1020); its name is "set" once duplicated
ElementOf(dm) ==
    [name |-> "set",
     getHandler |-> IF dm.getHandler # "NULL" THEN dm.getHandler ELSE "getHandler",
     setHandler |-> IF dm.setHandler # "NULL" THEN dm.setHandler ELSE "setHandler"]

Uninit == [name |-> "uninit", getHandler |-> "uninit", setHandler |-> "uninit"]

\* lines 1003-1021; failAt = 0: the array allocation fails, failAt = k in
\* 1..total: the strdup of the k-th name fails, failAt > total: none fails
Main_Elements ==
    /\ pc = "elements"
    /\ \E failAt \in 0..(g_totalDataModels + 1) :
          IF failAt = 0 THEN FailWith(g_rbusHandle, NullArray, FALSE)
          ELSE IF failAt <= g_totalDataModels
          THEN FailWith(g_rbusHandle,
                        [i \in 1..g_totalDataModels |->
                            IF i < failAt THEN ElementOf(g_dataModels[i])
                            ELSE IF i = failAt THEN [Uninit EXCEPT !.name = "null"]
                            ELSE Uninit],
                        FALSE)
          ELSE /\ g_dataElements' = [i \in 1..g_totalDataModels |-> ElementOf(g_dataModels[i])]
               /\ pc' = "register"
               /\ UNCHANGED << exitCode, g_dataModels, g_rbusHandle, registered, heap, memErr >>
    /\ UNCHANGED << inflight, root, build, g_numDataModels, g_totalDataModels,
                    g_mem_cache, now, g_running, pubIdx, ooms, last >>

\* lines 1023-1028
Main_Register ==
    /\ pc = "register"
    /\ \/ /\ registered' = TRUE
          /\ pc' = "publish"
          /\ UNCHANGED << exitCode, g_dataModels, g_rbusHandle, g_dataElements, heap, memErr >>
       \/ FailWith(g_rbusHandle, g_dataElements, FALSE)
    /\ UNCHANGED << inflight, root, build, g_numDataModels, g_totalDataModels,
                    g_mem_cache, now, g_running, pubIdx, ooms, last >>

----------------------------------------------------------------------------
(* The generic callbacks.                                                    *)

\* callers are let in once the startup loop is over
Serving == Alive /\ registered /\ pc = "idle"

\* what reading the wrong member of a value's union can leave in an entry
Reinterpreted(t) ==
    IF t = TYPE_BOOL THEN {[boolVal |-> TRUE], [boolVal |-> FALSE]}
    ELSE {[num |-> Zero], [num |-> IntNum(1)]}

\* PayloadOf, had the TYPE_LONG case read the value with rbusValue_GetInt32:
\* the low 32 bits of INT64_MIN are zero
PayloadOf_Narrow(v) ==
    IF v.type = "RBUS_BOOLEAN" THEN [boolVal |-> v.b]
    ELSE IF v.type = "RBUS_INT64" /\ v.num = INT64_MIN THEN [num |-> Zero]
    ELSE [num |-> v.num]

\* rbusValue_GetInt32 ... rbusValue_GetByte on a value of that very type
PayloadOf(v) == IF v.type = "RBUS_BOOLEAN" THEN [boolVal |-> v.b] ELSE [num |-> v.num]

\* getHandler (lines 850-893) as a function of the registry: rc and value
GetResult(dms, hp, n, name) ==
    LET i == FindFirst(dms, n, name) IN
    IF i = 0 THEN [rc |-> "RBUS_ERROR_INVALID_INPUT", out |-> RbusNone, idx |-> 0]
    ELSE [rc |-> "RBUS_ERROR_SUCCESS", out |-> ValueOfEntry(dms[i], hp), idx |-> i]

\* the value of the set a get directly follows, when that set was on the same
\* name and returned success
Expecting(name) ==
    IF last.op = "set" /\ last.name = name /\ last.rc = "RBUS_ERROR_SUCCESS"
    THEN last.arg ELSE RbusNone

GetHandler(name) ==
    /\ Serving
    /\ LET i == FindFirst(g_dataModels, g_numDataModels, name) IN
       IF i # 0 /\ IsStringType(g_dataModels[i].type) /\ g_dataModels[i].value.strVal = NULL
       THEN \* rbusValue_SetString(value, NULL)
            \/ /\ pc' = "crashed"
               /\ last' = [NoCall EXCEPT !.op = "get", !.name = name, !.rc = "crash",
                                         !.idx = i, !.expect = Expecting(name)]
            \/ /\ pc' = pc
               /\ last' = [NoCall EXCEPT !.op = "get", !.name = name,
                                         !.rc = "RBUS_ERROR_SUCCESS",
                                         !.out = RbusString(""), !.idx = i,
                                         !.expect = Expecting(name)]
       ELSE LET r == GetResult(g_dataModels, heap, g_numDataModels, name) IN
            /\ pc' = pc
            /\ last' = [NoCall EXCEPT !.op = "get", !.name = name, !.rc = r.rc,
                                      !.out = r.out, !.idx = r.idx,
                                      !.expect = Expecting(name)]
    /\ UNCHANGED << inflight, root, build, exitCode, g_dataModels, g_numDataModels,
                    g_totalDataModels, g_rbusHandle, g_dataElements, registered,
                    heap, g_mem_cache, now, g_running, pubIdx, memErr, ooms >>

\* SetString, had the new buffer also been stored in the entry after entry i
SetString_Overrun(dms, hp, i, v, oom) ==
    IF ~HasText(v) THEN [dms |-> dms, heap |-> hp, rc |-> "RBUS_ERROR_SUCCESS"]
    ELSE
        LET freed == Free(hp, dms[i].value.strVal)
            dup   == Strdup(freed, rbusValue_ToString(v), oom)
        IN  [dms  |-> [k \in 1..Len(dms) |->
                         IF k = i \/ (k = i + 1 /\ IsStringType(dms[k].type))
                         THEN [dms[k] EXCEPT !.value = [strVal |-> dup.p]]
                         ELSE dms[k]],
             heap |-> dup.heap,
             rc   |-> IF dup.p = NULL THEN "RBUS_ERROR_OUT_OF_RESOURCES"
                      ELSE "RBUS_ERROR_SUCCESS"]

\* the string case of setHandler (lines 904-915) on entry i: the registry, the
\* heap and the return code it leaves; oom: strdup fails
SetString(dms, hp, i, v, oom) ==
    IF ~HasText(v) THEN [dms |-> dms, heap |-> hp, rc |-> "RBUS_ERROR_SUCCESS"]
    ELSE
        LET str   == Strdup(hp, rbusValue_ToString(v), FALSE)
            freed == Free(str.heap, dms[i].value.strVal)
            dup   == Strdup(freed, rbusValue_ToString(v), oom)
        IN  [dms  |-> [dms EXCEPT ![i].value = [strVal |-> dup.p]],
             heap |-> Free(dup.heap, str.p),
             rc   |-> IF dup.p = NULL THEN "RBUS_ERROR_OUT_OF_RESOURCES"
                      ELSE "RBUS_ERROR_SUCCESS"]

\* SetTarget, had the scan kept going after a match: the last entry of the name
SetTarget_LastMatch(dms, total, name) ==
    IF \E i \in 1..total : dms[i].name = name
    THEN CHOOSE i \in 1..total :
            dms[i].name = name /\ \A k \in (i + 1)..total : dms[k].name # name
    ELSE 0

\* the entry setHandler resolves a name to (line 899)
SetTarget(dms, total, name) == FindFirst(dms, total, name)

\* setHandler (lines 896-945) called with (name, v)
SetHandlerBody(name, v, oom, nextPc) ==
    LET i == SetTarget(g_dataModels, g_totalDataModels, name)
        call == [NoCall EXCEPT !.op = "set", !.name = name, !.arg = v, !.idx = i,
                               !.by = IF pc = "publish" THEN "rbus_set" ELSE "caller",
                               !.pub = IF pc = "publish" THEN pubIdx ELSE 0]
    IN
    IF i = 0 THEN
        /\ last' = [call EXCEPT !.rc = "RBUS_ERROR_INVALID_INPUT"]
        /\ UNCHANGED << g_dataModels, heap, exitCode >>
        /\ pc' = nextPc
    ELSE IF IsStringType(g_dataModels[i].type) THEN
        LET r == SetString(g_dataModels, heap, i, v, oom) IN
        /\ g_dataModels' = r.dms
        /\ heap' = r.heap
        /\ last' = [call EXCEPT !.rc = r.rc,
                                !.delta = Delta(g_dataModels, heap, r.dms, r.heap)]
        /\ UNCHANGED exitCode
        /\ pc' = nextPc
    ELSE IF v.type = RbusTypeOf(g_dataModels[i].type) THEN
        LET d == [g_dataModels EXCEPT ![i].value = PayloadOf(v)] IN
        /\ g_dataModels' = d
        /\ last' = [call EXCEPT !.rc = "RBUS_ERROR_SUCCESS",
                                !.delta = Delta(g_dataModels, heap, d, heap)]
        /\ UNCHANGED << heap, exitCode >>
        /\ pc' = nextPc
    ELSE \* rbusValue_GetXxx on a value of another type: the accessor's assertion
         \* stops the process, or the wrong member of the union is stored
        \/ /\ pc' = "aborted"
           /\ last' = [call EXCEPT !.rc = "abort"]
           /\ UNCHANGED << g_dataModels, heap, exitCode >>
        \/ \E g \in Reinterpreted(g_dataModels[i].type) :
              LET d == [g_dataModels EXCEPT ![i].value = g] IN
              /\ g_dataModels' = d
              /\ last' = [call EXCEPT !.rc = "RBUS_ERROR_SUCCESS",
                                      !.delta = Delta(g_dataModels, heap, d, heap)]
              /\ UNCHANGED << heap, exitCode >>
              /\ pc' = nextPc

\* the values a caller offers an entry of type t: two of the entry's kind, one
\* of another kind, and a property without a value
Matching(t) ==
    CASE IsStringType(t)  -> {RbusString("x"), RbusString("y")}
      [] t = TYPE_INT     -> {RbusNum("RBUS_INT32", IntNum(-7)), RbusNum("RBUS_INT32", INT32_MAX)}
      [] t = TYPE_UINT    -> {RbusNum("RBUS_UINT32", IntNum(9999)),
                              RbusNum("RBUS_UINT32", UINT32_MAX)}
      [] t = TYPE_BOOL    -> {RbusBool(TRUE), RbusBool(FALSE)}
      [] t = TYPE_LONG    -> {RbusNum("RBUS_INT64", INT64_MIN), RbusNum("RBUS_INT64", IntNum(5))}
      [] t = TYPE_ULONG   -> {RbusNum("RBUS_UINT64", UINT64_MAX),
                              RbusNum("RBUS_UINT64", IntNum(6))}
      [] t = TYPE_FLOAT   -> {RbusNum("RBUS_SINGLE", HalfNum(2)), RbusNum("RBUS_SINGLE", IntNum(3))}
      [] t = TYPE_DOUBLE  -> {RbusNum("RBUS_DOUBLE", HalfNum(-2)),
                              RbusNum("RBUS_DOUBLE", IntNum(4))}
      [] OTHER            -> {RbusNum("RBUS_BYTE", IntNum(200)), RbusNum("RBUS_BYTE", IntNum(255))}

Mismatching(t) ==
    {RbusNone} \cup
    (IF IsStringType(t) THEN {RbusNum("RBUS_INT32", IntNum(-7))}
     ELSE IF t = TYPE_BOOL THEN {RbusNum("RBUS_UINT32", IntNum(9999))}
     ELSE {RbusBool(TRUE)})

\* the values offered in a set on a name: chosen by the kind of the entry the
\* name belongs to; for a name of no entry, any of a few
ArgsFor(name) ==
    LET i == IF g_dataModels = NullArray THEN 0
             ELSE FindFirst(g_dataModels, g_totalDataModels, name) IN
    IF i = 0 THEN {RbusString("x"), RbusNum("RBUS_UINT32", IntNum(9999)), RbusNone}
    ELSE Matching(g_dataModels[i].type) \cup Mismatching(g_dataModels[i].type)

\* the names getHandler is called with: the schema's names (the elements it
\* is the callback of) and a name of no entry
GetNames ==
    {g_dataModels[i].name : i \in 1..(IF g_dataModels = NullArray THEN 0 ELSE g_numDataModels)}
    \cup {"Nope"}

\* the names setHandler is called with: those, and a built-in name (setHandler
\* is the set callback of every element)
CallNames == GetNames \cup {MemTotalName}

\* whether setHandler called with (name, v) reaches the strdup of line 908
Duplicates(name, v) ==
    LET i == SetTarget(g_dataModels, g_totalDataModels, name) IN
    i # 0 /\ IsStringType(g_dataModels[i].type) /\ HasText(v)

SetHandler(name, v, oom) ==
    /\ Serving
    /\ oom => ooms < MaxOom /\ Duplicates(name, v)
    /\ ooms' = IF oom THEN ooms + 1 ELSE ooms
    /\ SetHandlerBody(name, v, oom, pc)
    /\ UNCHANGED << inflight, root, build, g_numDataModels, g_totalDataModels, g_rbusHandle,
                    g_dataElements, registered, g_mem_cache, now, g_running,
                    pubIdx, memErr >>

\* one iteration of the startup loop (lines 1033-1074): the entry's stored
\* value is sent with rbus_set, which the bus hands to the element's set
\* callback (setHandler, every entry's setHandler being NULL) or fails; the
\* allocation failures of a run are met in the callers' sets, not here
Main_Publish ==
    /\ pc = "publish"
    /\ Alive
    /\ LET i      == pubIdx
           dm     == g_dataModels[i]
           nextPc == IF i = g_totalDataModels THEN "idle" ELSE "publish"
       IN
       /\ pubIdx' = i + 1
       /\ IF IsStringType(dm.type) /\ dm.value.strVal = NULL
          THEN \* rbusValue_SetString(value, NULL)
               /\ pc' = "crashed"
               /\ UNCHANGED << g_dataModels, heap, exitCode, ooms, last >>
          ELSE \/ /\ SetHandlerBody(dm.name, ValueOfEntry(dm, heap), FALSE, nextPc)
                  /\ UNCHANGED ooms
               \/ /\ pc' = nextPc
                  /\ UNCHANGED << g_dataModels, heap, exitCode, ooms, last >>
    /\ UNCHANGED << inflight, root, build, g_numDataModels, g_totalDataModels, g_rbusHandle,
                    g_dataElements, registered, g_mem_cache, now, g_running, memErr >>

\* signal_handler (lines 79-81)
signal_handler ==
    /\ Alive
    /\ g_running = 1
    /\ g_running' = 0
    /\ UNCHANGED << inflight, root, build, pc, exitCode, g_dataModels, g_numDataModels,
                    g_totalDataModels, g_rbusHandle, g_dataElements, registered,
                    heap, g_mem_cache, now, pubIdx, memErr, ooms, last >>

\* Main_Shutdown, had main returned without calling cleanup
Main_Shutdown_NoCleanup ==
    /\ pc = "idle"
    /\ g_running = 0
    /\ pc' = "exit"
    /\ exitCode' = 0
    /\ UNCHANGED << inflight, root, build, g_dataModels, g_numDataModels, g_totalDataModels,
                    g_rbusHandle, g_dataElements, registered, heap, memErr,
                    g_mem_cache, now, g_running, pubIdx, ooms, last >>

\* lines 1076-1082: the idle loop ends once the flag is cleared
Main_Shutdown ==
    /\ pc = "idle"
    /\ g_running = 0
    /\ CleanupAndExit(g_rbusHandle, g_dataElements, registered, 0)
    /\ UNCHANGED << inflight, root, build, g_numDataModels, g_totalDataModels,
                    g_mem_cache, now, g_running, pubIdx, ooms, last >>

----------------------------------------------------------------------------
(* The memory cache and its three providers (lines 382-487), in the build   *)
(* that reads /proc/meminfo.                                                 *)

\* what the five sscanf patterns find in /proc/meminfo; opened = FALSE: fopen fails
MemInfos ==
    { [opened |-> FALSE, mem_total |-> 0, mem_free |-> 0, buffers |-> 0, cached |-> 0,
       sreclaimable |-> 0],
      [opened |-> TRUE, mem_total |-> 0, mem_free |-> 0, buffers |-> 0, cached |-> 0,
       sreclaimable |-> 0],
      [opened |-> TRUE, mem_total |-> 1000, mem_free |-> 100, buffers |-> 50, cached |-> 200,
       sreclaimable |-> 25],
      [opened |-> TRUE, mem_total |-> 1000, mem_free |-> 300, buffers |-> 40, cached |-> 150,
       sreclaimable |-> 10] }

\* CacheValid, had line 384 compared with >=
CacheValid_Inclusive(cache, t) == cache.last_updated + MEMORY_CACHE_TIMEOUT >= t

\* line 384: the cache is still valid
CacheValid(cache, t) == cache.last_updated + MEMORY_CACHE_TIMEOUT > t

\* update_memory_cache, had line 438 stamped the cache before the query
update_memory_cache_StampFirst(cache, t, mi) ==
    IF CacheValid(cache, t) THEN [ret |-> TRUE, cache |-> cache, query |-> "none"]
    ELSE IF ~mi.opened \/ mi.mem_total = 0 \/ mi.mem_free = 0
    THEN [ret |-> FALSE, cache |-> [cache EXCEPT !.last_updated = t], query |-> "failed"]
    ELSE LET free == mi.mem_free + mi.buffers + mi.cached + mi.sreclaimable IN
         [ret |-> TRUE,
          cache |-> [total |-> mi.mem_total, free |-> free, used |-> mi.mem_total - free,
                     last_updated |-> t],
          query |-> "ok"]

\* update_memory_cache at time t when the OS answers with mi: its return
\* value, the cache it leaves, and whether it queried the OS
update_memory_cache(cache, t, mi) ==
    IF CacheValid(cache, t) THEN [ret |-> TRUE, cache |-> cache, query |-> "none"]
    ELSE IF ~mi.opened \/ mi.mem_total = 0 \/ mi.mem_free = 0
    THEN [ret |-> FALSE, cache |-> cache, query |-> "failed"]
    ELSE LET free == mi.mem_free + mi.buffers + mi.cached + mi.sreclaimable IN
         [ret |-> TRUE,
          cache |-> [total |-> mi.mem_total, free |-> free, used |-> mi.mem_total - free,
                     last_updated |-> t],
          query |-> "ok"]

\* the field each memory provider returns
MemField(op, cache) ==
    CASE op = "get_memory_total" -> cache.total
      [] op = "get_memory_used"  -> cache.used
      [] OTHER                   -> cache.free

\* get_memory_total, get_memory_used, get_memory_free
MemoryGet(op, mi) ==
    /\ Serving
    /\ LET u == update_memory_cache(g_mem_cache, now, mi) IN
       /\ g_mem_cache' = u.cache
       /\ last' = [NoCall EXCEPT
                     !.op = op,
                     !.rc = IF u.ret THEN "RBUS_ERROR_SUCCESS" ELSE "RBUS_ERROR_BUS_ERROR",
                     !.out = IF u.ret
                             THEN RbusNum("RBUS_UINT32",
                                          IntNum(CastUInt32(MemField(op, u.cache))))
                             ELSE RbusNone,
                     !.query = u.query,
                     !.prev = last.query,
                     !.age = now - g_mem_cache.last_updated,
                     !.cacheDelta = (u.cache # g_mem_cache),
                     !.fresh = (u.cache.last_updated = now)]
    /\ UNCHANGED << inflight, root, build, pc, exitCode, g_dataModels, g_numDataModels,
                    g_totalDataModels, g_rbusHandle, g_dataElements, registered,
                    heap, now, g_running, pubIdx, memErr, ooms >>

get_memory_total == \E mi \in MemInfos : MemoryGet("get_memory_total", mi)

get_memory_used == \E mi \in MemInfos : MemoryGet("get_memory_used", mi)

get_memory_free == \E mi \in MemInfos : MemoryGet("get_memory_free", mi)

\* what the OS hands a provider of a string: nothing, or a text (which may
\* be the very text the template stores)
OsAnswers ==
    { [ok |-> FALSE, text |-> ""], [ok |-> TRUE, text |-> "os"],
      [ok |-> TRUE, text |-> "unknown"] }

\* ProviderResult, had a provider fallen back to the entry's stored value
\* when the OS query fails
ProviderResult_Fallback(ans, dm, hp) ==
    IF ans.ok THEN [rc |-> "RBUS_ERROR_SUCCESS", out |-> RbusString(ans.text)]
    ELSE [rc |-> "RBUS_ERROR_SUCCESS",
          out |-> IF dm.value.strVal = NULL THEN RbusString("") ELSE ValueOfEntry(dm, hp)]

\* the providers of a string (lines 83-380 and 489-522): the formatted answer
\* of the OS, or RBUS_ERROR_BUS_ERROR; dm is the provider's own entry
ProviderResult(ans, dm, hp) ==
    IF ans.ok THEN [rc |-> "RBUS_ERROR_SUCCESS", out |-> RbusString(ans.text)]
    ELSE [rc |-> "RBUS_ERROR_BUS_ERROR", out |-> RbusNone]

\* the entry of the built-in whose getHandler is op
BuiltInEntry(op) ==
    g_dataModels[g_numDataModels
                 + CHOOSE j \in 1..NumBuiltIns : gDataModels[j].getHandler = op]

ProviderGet(op, ans) ==
    /\ Serving
    /\ last' = [NoCall EXCEPT !.op = op,
                              !.arg = IF ans.ok THEN RbusString(ans.text) ELSE RbusNone,
                              !.rc = ProviderResult(ans, BuiltInEntry(op), heap).rc,
                              !.out = ProviderResult(ans, BuiltInEntry(op), heap).out]
    /\ UNCHANGED << inflight, root, build, pc, exitCode, g_dataModels, g_numDataModels,
                    g_totalDataModels, g_rbusHandle, g_dataElements, registered,
                    heap, g_mem_cache, now, g_running, pubIdx, memErr, ooms >>

get_system_serial_number == \E ans \in OsAnswers : ProviderGet("get_system_serial_number", ans)

get_system_time == \E ans \in OsAnswers : ProviderGet("get_system_time", ans)

get_system_uptime == \E ans \in OsAnswers : ProviderGet("get_system_uptime", ans)

get_mac_address == \E ans \in OsAnswers : ProviderGet("get_mac_address", ans)

get_local_time == \E ans \in OsAnswers : ProviderGet("get_local_time", ans)

\* a second passes
Tick ==
    /\ now < StartTime + MaxTicks
    /\ now' = now + 1
    /\ UNCHANGED << inflight, root, build, pc, exitCode, g_dataModels, g_numDataModels,
                    g_totalDataModels, g_rbusHandle, g_dataElements, registered,
                    heap, g_mem_cache, g_running, pubIdx, memErr, ooms, last >>

----------------------------------------------------------------------------
(* Schema files.                                                             *)

Array(items) == [kind |-> "array", items |-> items]

\* a first record of every kind, named A
FirstRecords ==
    { JObject(JString("A"), JNumber(IntNum(TYPE_STRING)), JString("s0")),
      JObject(JString("A"), JNumber(IntNum(TYPE_INT)), JNumber(IntNum(-1))),
      JObject(JString("A"), JNumber(IntNum(TYPE_UINT)), JNumber(IntNum(7))),
      JObject(JString("A"), JNumber(IntNum(TYPE_BOOL)), JTrue),
      JObject(JString("A"), JNumber(IntNum(TYPE_DATETIME)), JString("2024-02-07T23:52:32")),
      JObject(JString("A"), JNumber(IntNum(TYPE_BASE64)), JAbsent),
      JObject(JString("A"), JNumber(IntNum(TYPE_LONG)), JNumber(IntNum(-9))),
      JObject(JString("A"), JNumber(IntNum(TYPE_ULONG)), JNumber(IntNum(9))),
      JObject(JString("A"), JNumber(IntNum(TYPE_FLOAT)), JNumber(HalfNum(1))),
      JObject(JString("A"), JNumber(IntNum(TYPE_DOUBLE)), JNumber(HalfNum(-1))),
      JObject(JString("A"), JNumber(IntNum(TYPE_BYTE)), JNumber(IntNum(17))) }

\* the first records of the schemas of more than one record
LeadRecords ==
    { JObject(JString("A"), JNumber(IntNum(TYPE_STRING)), JString("s0")),
      JObject(JString("A"), JNumber(IntNum(TYPE_UINT)), JNumber(IntNum(7))) }

\* further records: another name, the first record's name again, and the
\* name of a built-in data model
MoreRecords ==
    { JObject(JString("B"), JNumber(IntNum(TYPE_STRING)), JString("b0")),
      JObject(JString("A"), JNumber(IntNum(TYPE_UINT)), JNumber(IntNum(8))),
      JObject(JString(MemTotalName), JNumber(IntNum(TYPE_UINT)), JNumber(IntNum(7))) }

\* records after the second one
LastRecords ==
    { JObject(JString(MemTotalName), JNumber(IntNum(TYPE_UINT)), JNumber(IntNum(7))) }

\* the arrays of n records: a first record, a second one, and further ones
RECURSIVE Schemas(_, _, _, _)
Schemas(n, first, more, rest) ==
    IF n = 0 THEN { << >> }
    ELSE IF n = 1 THEN { << r >> : r \in first }
    ELSE { Append(sq, r) : sq \in Schemas(n - 1, first, more, rest),
                           r \in IF n = 2 THEN more ELSE rest }

RunRoots ==
    { Array(sq) : sq \in Schemas(1, FirstRecords, MoreRecords, LastRecords)
                      \cup UNION { Schemas(n, LeadRecords, MoreRecords, LastRecords) :
                                     n \in 2..MaxRecords } }

Builds == {"wrap", "saturate"}

InitCommon ==
    /\ pc = "load"
    /\ exitCode = -1
    /\ g_dataModels = NullArray
    /\ g_numDataModels = 0
    /\ g_totalDataModels = 0
    /\ g_rbusHandle = NULL
    /\ g_dataElements = NullArray
    /\ registered = FALSE
    /\ heap = << >>
    /\ g_mem_cache = [total |-> 0, free |-> 0, used |-> 0, last_updated |-> 0]
    /\ now = StartTime
    /\ g_running = 1
    /\ pubIdx = 1
    /\ memErr = {}
    /\ ooms = 0
    /\ last = NoCall
    /\ inflight = NoCalls

Init ==
    /\ root \in RunRoots
    /\ build = "wrap"
    /\ InitCommon

Startup == Main_Load \/ Main_RbusOpen \/ Main_Elements \/ Main_Register

Next ==
    \/ Startup
    \/ Main_Publish
    \/ \E name \in GetNames : GetHandler(name)
    \/ \E name \in CallNames : \E v \in ArgsFor(name) : \E oom \in BOOLEAN :
          SetHandler(name, v, oom)

Spec == Init /\ [][Next]_vars

----------------------------------------------------------------------------
(* The loader on its own: schema files with invalid declarations, literals  *)
(* at and beyond the limits of each kind, and values of the wrong JSON type. *)

Rec(n, t, v) == JObject(JString(n), JNumber(IntNum(t)), v)

InvalidRecords ==
    { JNotObject,
      JObject(JAbsent, JNumber(IntNum(TYPE_UINT)), JNumber(IntNum(7))),
      JObject(JNumber(IntNum(1)), JNumber(IntNum(TYPE_UINT)), JNumber(IntNum(7))),
      JObject(JString(""), JNumber(IntNum(TYPE_UINT)), JNumber(IntNum(7))),
      JObject(JString("A"), JAbsent, JNumber(IntNum(7))),
      JObject(JString("A"), JString("2"), JNumber(IntNum(7))),
      JObject(JString("A"), JNumber(IntNum(-1)), JNumber(IntNum(7))),
      JObject(JString("A"), JNumber(IntNum(11)), JNumber(IntNum(7))),
      JObject(JString("A"), JNumber(HalfNum(2)), JNumber(IntNum(7))),
      JObject(JString("A"), JNumber(HalfNum(10)), JNumber(IntNum(7))) }

\* literals at and just beyond the limits of the numeric kinds
LimitRecords ==
    { Rec("A", TYPE_INT, JNumber(INT32_MAX)),
      Rec("A", TYPE_INT, JNumber(Num(FALSE, Pow2(31), 0))),
      Rec("A", TYPE_INT, JNumber(INT32_MIN)),
      Rec("A", TYPE_INT, JNumber(Num(TRUE, Pow2Plus(31, 1), 0))),
      Rec("A", TYPE_INT, JNumber(HalfNum(2))),
      Rec("A", TYPE_UINT, JNumber(UINT32_MAX)),
      Rec("A", TYPE_UINT, JNumber(Num(FALSE, Pow2(32), 0))),
      Rec("A", TYPE_UINT, JNumber(IntNum(-1))),
      Rec("A", TYPE_UINT, JNumber(IntNum(7))),
      Rec("A", TYPE_LONG, JNumber(INT64_MAX)),
      Rec("A", TYPE_LONG, JNumber(Num(FALSE, Pow2(63), 0))),
      Rec("A", TYPE_LONG, JNumber(Num(FALSE, Pow2Plus(63, 2048), 0))),
      Rec("A", TYPE_LONG, JNumber(INT64_MIN)),
      Rec("A", TYPE_LONG, JNumber(Num(TRUE, Pow2Plus(63, 1), 0))),
      Rec("A", TYPE_LONG, JNumber(Num(TRUE, Pow2Plus(63, 2048), 0))),
      Rec("A", TYPE_ULONG, JNumber(UINT64_MAX)),
      Rec("A", TYPE_ULONG, JNumber(Num(FALSE, Pow2(64), 0))),
      Rec("A", TYPE_ULONG, JNumber(Num(FALSE, Pow2Plus(64, 4096), 0))),
      Rec("A", TYPE_ULONG, JNumber(IntNum(-1))),
      Rec("A", TYPE_BYTE, JNumber(IntNum(255))),
      Rec("A", TYPE_BYTE, JNumber(IntNum(256))),
      Rec("A", TYPE_BYTE, JNumber(HalfNum(255))),
      Rec("A", TYPE_BYTE, JNumber(IntNum(-1))),
      Rec("A", TYPE_FLOAT, JNumber(Num(FALSE, Pow2Plus(24, 1), 0))),
      Rec("A", TYPE_DOUBLE, JNumber(HalfNum(2))) }

\* values that are absent or of another JSON type than the kind's
DefaultRecords ==
    { Rec("A", TYPE_STRING, JAbsent), Rec("A", TYPE_STRING, JNumber(IntNum(5))),
      Rec("A", TYPE_STRING, JString("v")), Rec(LongName, TYPE_STRING, JString("v")),
      Rec("A", TYPE_INT, JAbsent), Rec("A", TYPE_INT, JString("5")),
      Rec("A", TYPE_UINT, JTrue),
      Rec("A", TYPE_BOOL, JAbsent), Rec("A", TYPE_BOOL, JTrue), Rec("A", TYPE_BOOL, JFalse),
      Rec("A", TYPE_BOOL, JNumber(IntNum(1))), Rec("A", TYPE_BOOL, JString("true")),
      Rec("A", TYPE_DATETIME, JAbsent), Rec("A", TYPE_DATETIME, JTrue),
      Rec("A", TYPE_BASE64, JString("QQ==")), Rec("A", TYPE_BASE64, JNumber(IntNum(5))),
      Rec("A", TYPE_LONG, JAbsent), Rec("A", TYPE_LONG, JString("5")),
      Rec("A", TYPE_ULONG, JAbsent), Rec("A", TYPE_ULONG, JFalse),
      Rec("A", TYPE_FLOAT, JAbsent), Rec("A", TYPE_FLOAT, JString("1.5")),
      Rec("A", TYPE_DOUBLE, JAbsent), Rec("A", TYPE_DOUBLE, JTrue),
      Rec("A", TYPE_BYTE, JAbsent), Rec("A", TYPE_BYTE, JString("5")) }

LoadRecords == InvalidRecords \cup LimitRecords \cup DefaultRecords

\* the records that follow the first one in the longer files
TailRecords ==
    { Rec("B", TYPE_UINT, JNumber(IntNum(7))),
      Rec("B", TYPE_INT, JString("5")),
      Rec("B", TYPE_BOOL, JNumber(IntNum(1))),
      Rec("B", TYPE_STRING, JString("v")),
      Rec("B", TYPE_UINT, JNumber(Num(FALSE, Pow2(32), 0))),
      Rec("B", TYPE_LONG, JNumber(Num(FALSE, Pow2(63), 0))),
      Rec("B", TYPE_BYTE, JNumber(IntNum(256))),
      JObject(JString(""), JNumber(IntNum(TYPE_UINT)), JNumber(IntNum(7))),
      JObject(JString("B"), JNumber(HalfNum(2)), JNumber(IntNum(7))),
      JObject(JString("B"), JNumber(IntNum(11)), JNumber(IntNum(7))) }

\* a file that cannot be opened, is no JSON, is no array; and arrays
LoadRoots ==
    { [kind |-> "nofile", items |-> << >>], [kind |-> "unparsable", items |-> << >>],
      [kind |-> "notarray", items |-> << >>] }
    \cup { Array(sq) : sq \in UNION { Schemas(n, LoadRecords, TailRecords, TailRecords) :
                                        n \in 0..MaxLoadRecords } }

InitLoad ==
    /\ root \in LoadRoots
    /\ build \in Builds
    /\ InitCommon

NextLoad == Main_Load \/ Main_RbusOpen \/ Main_Elements \/ Main_Register

SpecLoad == InitLoad /\ [][NextLoad]_vars

----------------------------------------------------------------------------
(* The memory providers on their own.                                        *)

InitMem ==
    /\ root = Array(<< Rec("A", TYPE_UINT, JNumber(IntNum(7))) >>)
    /\ build = "wrap"
    /\ InitCommon

NextMem ==
    \/ Main_Load \/ Main_RbusOpen \/ Main_Elements \/ Main_Register
    \/ Main_Publish
    \/ get_memory_total
    \/ get_memory_used
    \/ get_memory_free
    \/ Tick

SpecMem == InitMem /\ [][NextMem]_vars

----------------------------------------------------------------------------
(* The claims about the callbacks, checked under Spec.                       *)

\* the first entry of a name in registry order, 0 when the name has none
LeastIndex(dms, name) ==
    LET S == {i \in 1..Len(dms) : dms[i].name = name} IN
    IF S = {} THEN 0 ELSE CHOOSE i \in S : \A k \in S : i <= k

\* the kind of the attribute a name denotes
KindOfName(name) == RbusTypeOf(g_dataModels[LeastIndex(g_dataModels, name)].type)

IsSchemaName(name) ==
    LET i == LeastIndex(g_dataModels, name) IN i # 0 /\ i <= g_numDataModels

\* the name has more than one entry
Shadowed(dms, name) == Cardinality({i \in 1..Len(dms) : dms[i].name = name}) >= 2

\* what a get renders of an entry; an entry without a buffer renders empty
Held(dm, hp) ==
    IF IsStringType(dm.type) /\ dm.value.strVal = NULL THEN RbusString("")
    ELSE ValueOfEntry(dm, hp)

\* a step in which getHandler or setHandler ran
CallStep ==
    /\ last' # last \/ g_dataModels' # g_dataModels \/ heap' # heap
    /\ last'.op \in {"get", "set"}

\* C1: a get that directly follows a successful set(name, v) on a
\* schema-declared attribute, v being of the attribute's kind, returns
\* success and a value equal to v, whatever calls came before
C1_RoundTrip ==
    (/\ last.op = "get"
     /\ last.expect # RbusNone
     /\ IsSchemaName(last.name)
     /\ last.expect.type = KindOfName(last.name))
    => (last.rc = "RBUS_ERROR_SUCCESS" /\ last.out = last.expect)

\* a 64-bit value at the limit of its kind came back, after a failed allocation
C1_Witness ==
    /\ last.op = "get"
    /\ last.expect = RbusNum("RBUS_INT64", INT64_MIN)
    /\ last.out = RbusNum("RBUS_INT64", INT64_MIN)
    /\ KindOfName(last.name) = "RBUS_INT64"

\* C2: a set whose value is of another kind than the attribute's is refused
\* with an error and changes no attribute
C2_MismatchRefused ==
    (/\ last.op = "set"
     /\ last.by = "caller"
     /\ LeastIndex(g_dataModels, last.name) # 0
     /\ last.arg.type \notin {"RBUS_NONE", KindOfName(last.name)})
    => (last.rc \notin {"RBUS_ERROR_SUCCESS", "abort"} /\ last.delta = {})

\* C3: a get or set on a name of no registry entry returns the not-found
\* error and leaves the entries, their buffers and the counts as they were
C3_UnknownName ==
    [][(CallStep /\ LeastIndex(g_dataModels, last'.name) = 0)
        => /\ last'.rc = "RBUS_ERROR_INVALID_INPUT"
           /\ g_dataModels' = g_dataModels
           /\ heap' = heap
           /\ g_numDataModels' = g_numDataModels
           /\ g_totalDataModels' = g_totalDataModels]_vars

\* a set with a value on an unknown name was refused
C3_Witness ==
    /\ last.op = "set"
    /\ last.name = "Nope"
    /\ last.arg = RbusString("x")
    /\ last.rc = "RBUS_ERROR_INVALID_INPUT"
    /\ LeastIndex(g_dataModels, "Nope") = 0

\* C7: once loaded, the registry is the schema's n records in file order
\* followed by the 8 built-in data models in declaration order, n + 8 entries
\* in all, and stays so under every later call
C7_RegistryShape ==
    (root.kind = "array" /\ g_dataModels # NullArray) =>
        LET n == Len(root.items) IN
        /\ g_numDataModels = n
        /\ g_totalDataModels = n + 8
        /\ Len(g_dataModels) = n + 8
        /\ \A i \in 1..n :
              /\ g_dataModels[i].name = root.items[i].name.s
              /\ g_dataModels[i].type = BitsToNat(root.items[i].type.lit.m)
              /\ g_dataModels[i].getHandler = "NULL"
        /\ \A j \in 1..8 :
              /\ g_dataModels[n + j].name = gDataModels[j].name
              /\ g_dataModels[n + j].type = gDataModels[j].type
              /\ g_dataModels[n + j].getHandler = gDataModels[j].getHandler

\* a registry of 2 + 8 entries after a set changed one of them
C7_Witness ==
    /\ Len(root.items) = 2
    /\ Len(g_dataModels) = 10
    /\ last.op = "set"
    /\ last.by = "caller"
    /\ last.delta # {}

\* C8: when a name has several entries, a get returns what the first of them
\* holds and a set changes no entry but the first
C8_FirstMatchWins ==
    [][(CallStep /\ Shadowed(g_dataModels, last'.name))
        => /\ (last'.op = "get" /\ last'.rc = "RBUS_ERROR_SUCCESS")
                => last'.out = Held(g_dataModels[LeastIndex(g_dataModels, last'.name)], heap)
           /\ last'.op = "set"
                => \A i \in 1..Len(g_dataModels) \ {LeastIndex(g_dataModels, last'.name)} :
                      Observed(g_dataModels', heap', i) = Observed(g_dataModels, heap, i)]_vars

\* a set on the name of a built-in that the schema declares too changed the
\* schema's entry
C8_Witness ==
    /\ last.op = "set"
    /\ last.name = MemTotalName
    /\ Shadowed(g_dataModels, MemTotalName)
    /\ last.delta = {LeastIndex(g_dataModels, MemTotalName)}
    /\ last.by = "caller"

\* C9: a set that reports the resource error leaves the attribute with its
\* previous string
C9_FailedSetRollsBack ==
    (last.op = "set" /\ last.rc = "RBUS_ERROR_OUT_OF_RESOURCES")
    => (last.delta = {} /\ g_dataModels[last.idx].value.strVal # NULL)

----------------------------------------------------------------------------
(* The claims about the loader, checked under SpecLoad.                      *)

\* the record declares a numeric kind and a literal outside that kind's range
LiteralOutOfRange(item) ==
    /\ item.obj
    /\ cJSON_IsNumber(item.type)
    /\ cJSON_IsNumber(item.value)
    /\ \/ /\ item.type.lit = IntNum(TYPE_INT)
          /\ ~(NumLE(INT32_MIN, item.value.lit) /\ NumLE(item.value.lit, INT32_MAX))
       \/ /\ item.type.lit = IntNum(TYPE_UINT)
          /\ ~(NumLE(Zero, item.value.lit) /\ NumLE(item.value.lit, UINT32_MAX))
       \/ /\ item.type.lit = IntNum(TYPE_LONG)
          /\ ~(NumLE(INT64_MIN, item.value.lit) /\ NumLE(item.value.lit, INT64_MAX))
       \/ /\ item.type.lit = IntNum(TYPE_ULONG)
          /\ ~(NumLE(Zero, item.value.lit) /\ NumLE(item.value.lit, UINT64_MAX))
       \/ /\ item.type.lit = IntNum(TYPE_BYTE)
          /\ ~(NumLE(Zero, item.value.lit) /\ NumLE(item.value.lit, UINT8_MAX))

\* C4: a schema with a numeric literal outside its kind's range, at any
\* position, fails the load: no registry, no registration, exit code 1
C4_OutOfRangeFailsLoad ==
    (/\ pc # "load"
     /\ root.kind = "array"
     /\ \E i \in 1..Len(root.items) : LiteralOutOfRange(root.items[i]))
    => (/\ pc = "exit"
        /\ exitCode = 1
        /\ g_dataModels = NullArray
        /\ ~registered)

\* the record's name is a non-empty string and its type an integer in 0..10
WellDeclared(item) ==
    /\ item.obj
    /\ cJSON_IsString(item.name)
    /\ item.name.s # ""
    /\ cJSON_IsNumber(item.type)
    /\ item.type.lit.h = 0
    /\ NumLE(Zero, item.type.lit)
    /\ NumLE(item.type.lit, IntNum(10))

\* C10: the load succeeds only when every record's name is a non-empty
\* string and its type an integer in 0..10
C10_DeclarationsValidated ==
    (pc \in {"open", "elements", "register", "publish", "idle"} /\ root.kind = "array")
    => \A i \in 1..Len(root.items) : WellDeclared(root.items[i])

----------------------------------------------------------------------------
(* The claims about the memory cache, checked under SpecMem.                 *)

MemoryReads == {"get_memory_total", "get_memory_used", "get_memory_free"}

\* the value a memory read returns from the cache as it is now
CachedFigure(op) == RbusNum("RBUS_UINT32", IntNum(CastUInt32(MemField(op, g_mem_cache))))

C6_FailedRefresh ==
    last.op \in MemoryReads =>
        /\ last.query = "failed" => /\ ~last.cacheDelta
                                    /\ last.rc = "RBUS_ERROR_BUS_ERROR"
                                    /\ last.out = RbusNone
        /\ last.prev = "failed" => last.query # "none"

\* a stale snapshot survived two failed refreshes in a row
C6_Witness ==
    /\ last.op \in MemoryReads
    /\ last.prev = "failed"
    /\ last.query = "failed"
    /\ g_mem_cache.total = 1000
    /\ now - g_mem_cache.last_updated > 5

----------------------------------------------------------------------------
(* The claim about defaulted values, checked under SpecLoad.                 *)

\* the value of a record is absent, or of another JSON type than its kind's
Defaulted(item) ==
    IF IsStringType(BitsToNat(item.type.lit.m)) THEN ~cJSON_IsString(item.value)
    ELSE IF item.type.lit = IntNum(TYPE_BOOL)
    THEN ~(cJSON_IsTrue(item.value) \/ cJSON_IsFalse(item.value))
    ELSE ~cJSON_IsNumber(item.value)

\* the default of a kind as a get renders it
DefaultOf(type) ==
    IF IsStringType(type) THEN RbusString("")
    ELSE IF type = TYPE_BOOL THEN RbusBool(FALSE)
    ELSE RbusNum(RbusTypeOf(type), Zero)

\* C11: when no allocation fails, a schema of well-declared records without
\* out-of-range literals loads; each record whose value is absent or of the
\* wrong JSON type gets its kind's default, and a bool attribute is true
\* only for the literal true
C11_DefaultsNeverFail ==
    (/\ last.op = "load"
     /\ ~last.fault
     /\ root.kind = "array"
     /\ Len(root.items) >= 1
     /\ \A i \in 1..Len(root.items) :
            WellDeclared(root.items[i]) /\ ~LiteralOutOfRange(root.items[i]))
    => /\ last.rc = "true"
       /\ g_dataModels # NullArray =>
            \A i \in 1..Len(root.items) :
               /\ Defaulted(root.items[i])
                    => Observed(g_dataModels, heap, i).value = DefaultOf(g_dataModels[i].type)
               /\ root.items[i].type.lit = IntNum(TYPE_BOOL)
                    => (g_dataModels[i].value.boolVal <=> cJSON_IsTrue(root.items[i].value))

\* a string where an int32 is expected, after a record with a proper value,
\* left an attribute of value 0
C11_Witness ==
    /\ pc = "open"
    /\ Len(root.items) = 2
    /\ root.items[2] = Rec("B", TYPE_INT, JString("5"))
    /\ ~Defaulted(root.items[1])
    /\ g_dataModels[2].value = [num |-> Zero]

----------------------------------------------------------------------------
(* The providers of the built-in data models together with sets on their    *)
(* names.                                                                    *)

\* the built-in names callers set in this specification
ProviderSetNames == {SerialName, MemTotalName}

NextProv ==
    \/ Main_Load \/ Main_RbusOpen \/ Main_Elements \/ Main_Register
    \/ Main_Publish
    \/ get_system_serial_number
    \/ get_system_time
    \/ get_system_uptime
    \/ get_mac_address
    \/ get_local_time
    \/ get_memory_total
    \/ get_memory_used
    \/ get_memory_free
    \/ \E name \in ProviderSetNames : \E v \in ArgsFor(name) : \E oom \in BOOLEAN :
          SetHandler(name, v, oom)

SpecProv == InitMem /\ [][NextProv]_vars

StringProviders ==
    {"get_system_serial_number", "get_system_time", "get_system_uptime",
     "get_mac_address", "get_local_time"}

\* a step in which a provider ran
ProviderStep ==
    /\ last'.op \in StringProviders \cup MemoryReads
    /\ last' # last \/ g_mem_cache' # g_mem_cache

\* C12: the element of every built-in carries the built-in's provider as its
\* get callback; a provider returns the answer of the OS (for the memory
\* providers the figure of the snapshot) or an error without a value,
\* whatever was set on its name before, and changes no entry
C12_ProvidersBypassStore ==
    /\ [](registered =>
            \A j \in 1..NumBuiltIns :
               g_dataElements[g_numDataModels + j].getHandler = gDataModels[j].getHandler)
    /\ [][ProviderStep =>
            /\ g_dataModels' = g_dataModels
            /\ heap' = heap
            /\ last'.op \in StringProviders =>
                 IF last'.arg = RbusNone
                 THEN last'.rc = "RBUS_ERROR_BUS_ERROR" /\ last'.out = RbusNone
                 ELSE last'.rc = "RBUS_ERROR_SUCCESS" /\ last'.out = last'.arg
            /\ last'.op \in MemoryReads =>
                 IF last'.query = "failed"
                 THEN last'.rc = "RBUS_ERROR_BUS_ERROR" /\ last'.out = RbusNone
                 ELSE /\ last'.rc = "RBUS_ERROR_SUCCESS"
                      /\ last'.out = RbusNum("RBUS_UINT32",
                                             IntNum(CastUInt32(MemField(last'.op, g_mem_cache'))))
          ]_vars

\* the serial number provider failed while its entry stored a text a caller
\* had set
C12_Witness ==
    /\ last.op = "get_system_serial_number"
    /\ last.rc = "RBUS_ERROR_BUS_ERROR"
    /\ Observed(g_dataModels, heap, g_numDataModels + 1).value = RbusString("x")

----------------------------------------------------------------------------
(* The claim about the startup loop, checked under Spec.                     *)

\* the values a get of entry dm can return while the loop runs: the stored
\* value, or for a built-in what its provider can answer
ResolvedValues(dm, hp) ==
    IF dm.getHandler = "NULL" THEN {Held(dm, hp)}
    ELSE IF dm.getHandler \in MemoryReads
    THEN {RbusNum("RBUS_UINT32",
                  IntNum(CastUInt32(MemField(dm.getHandler,
                                             update_memory_cache(g_mem_cache, now, mi).cache)))) :
             mi \in {x \in MemInfos : update_memory_cache(g_mem_cache, now, x).ret}}
    ELSE {RbusString(a.text) : a \in {x \in OsAnswers : x.ok}}

\* C13: the startup loop sends the entries in registry order, each once and
\* with the value a get would resolve at that moment (the provider's value
\* for a built-in), and ends after as many rounds as there are entries
C13_PublishesResolved ==
    /\ pc = "idle" => pubIdx = g_totalDataModels + 1
    /\ (last.op = "set" /\ last.by = "rbus_set" /\ g_dataModels # NullArray)
         => /\ last.pub < pubIdx
            /\ last.name = g_dataModels[last.pub].name
            /\ last.arg \in ResolvedValues(g_dataModels[last.pub], heap)

----------------------------------------------------------------------------
(* The life of the process: main from the load to its return, with a signal *)
(* arriving at any moment.  The idle loop polls the flag every second, so   *)
(* it is left once the flag is found cleared.                                *)

NextLife == Startup \/ Main_Publish \/ Main_Shutdown \/ signal_handler

SpecLife == Init /\ [][NextLife]_vars /\ WF_vars(Main_Shutdown)

-----------------------------------------------------------------------------
(* The frame of the two handlers.                                            *)

\* what no handler call may change of entry i: its name, kind and callbacks
ShapeOf(dms, i) ==
    [name |-> dms[i].name, type |-> dms[i].type,
     getHandler |-> dms[i].getHandler, setHandler |-> dms[i].setHandler]

\* C15: a set that returns success changes the stored value of no entry but
\* the first one of its name, and the name, kind and callbacks of no entry at
\* all; the data elements, both counts and the memory cache stay as they
\* were; a get changes no entry, no buffer and no count
C15_SetFrame ==
    [][CallStep =>
        LET i == LeastIndex(g_dataModels, last'.name) IN
        /\ (last'.op = "set" /\ last'.rc = "RBUS_ERROR_SUCCESS")
              => /\ Len(g_dataModels') = Len(g_dataModels)
                 /\ \A k \in 1..Len(g_dataModels) :
                       /\ ShapeOf(g_dataModels', k) = ShapeOf(g_dataModels, k)
                       /\ k # i => /\ g_dataModels'[k] = g_dataModels[k]
                                   /\ Observed(g_dataModels', heap', k)
                                        = Observed(g_dataModels, heap, k)
                 /\ g_dataElements' = g_dataElements
                 /\ g_numDataModels' = g_numDataModels
                 /\ g_totalDataModels' = g_totalDataModels
                 /\ g_mem_cache' = g_mem_cache
        /\ last'.op = "get"
              => /\ g_dataModels' = g_dataModels
                 /\ heap' = heap
                 /\ g_dataElements' = g_dataElements
                 /\ g_numDataModels' = g_numDataModels
                 /\ g_totalDataModels' = g_totalDataModels]_vars

\* a caller's set has succeeded and changed the value of its entry, in a
\* registry where another schema entry of a string kind holds a buffer
C15_Witness ==
    /\ last.op = "set"
    /\ last.by = "caller"
    /\ last.rc = "RBUS_ERROR_SUCCESS"
    /\ last.delta = {LeastIndex(g_dataModels, last.name)}
    /\ IsStringType(g_dataModels[LeastIndex(g_dataModels, last.name)].type)
    /\ \E k \in 1..g_numDataModels :
          /\ k # LeastIndex(g_dataModels, last.name)
          /\ IsStringType(g_dataModels[k].type)
          /\ g_dataModels[k].value.strVal # NULL

-----------------------------------------------------------------------------
(* The string cases of the two handlers, statement by statement, on two bus *)
(* threads.  Neither handler takes a lock (there is none in the file), so    *)
(* any step of one call can follow any step of another.                      *)

\* whether p is a buffer that has not been released
IsLive(hp, p) == p \in 1..Len(hp) /\ hp[p].live

OtherInFlight(t) == \E u \in Threads \ {t} : inflight.calls[u].pc # "idle"

\* a call begins on thread t with the locals c
Begun(t, c) ==
    [inflight EXCEPT !.calls[t] = c,
                     !.started = @ + 1,
                     !.overlapped = @ \/ OtherInFlight(t)]

\* what release or read of a released buffer does: undefined behaviour, the
\* process is stopped or goes on
Undefined(fault, nextInflight) ==
    /\ memErr' = memErr \cup {fault}
    /\ \/ pc' = "aborted" /\ inflight' = inflight
       \/ pc' = pc /\ inflight' = nextInflight

\* lines 897-905: the scan finds a string entry and
\* char *str = rbusValue_ToString(value, NULL, 0) is not NULL
setHandler_Begin(t, name, v) ==
    /\ Serving
    /\ inflight.calls[t].pc = "idle"
    /\ inflight.started < MaxCalls
    /\ LET i == SetTarget(g_dataModels, g_totalDataModels, name) IN
       /\ i # 0
       /\ IsStringType(g_dataModels[i].type)
       /\ HasText(v)
       /\ LET str == Strdup(heap, rbusValue_ToString(v), FALSE) IN
          /\ heap' = str.heap
          /\ inflight' = Begun(t, [pc |-> "set_free", i |-> i, str |-> str.p, p |-> NULL])
    /\ UNCHANGED << root, build, pc, exitCode, g_dataModels, g_numDataModels,
                    g_totalDataModels, g_rbusHandle, g_dataElements, registered,
                    g_mem_cache, now, g_running, pubIdx, memErr, ooms, last >>

\* setHandler_Free, had line 907 been left out
setHandler_Free_Skipped(t) ==
    /\ Alive
    /\ inflight.calls[t].pc = "set_free"
    /\ inflight' = [inflight EXCEPT !.calls[t].pc = "set_store"]
    /\ UNCHANGED << root, build, pc, exitCode, g_dataModels, g_numDataModels,
                    g_totalDataModels, g_rbusHandle, g_dataElements, registered,
                    heap, g_mem_cache, now, g_running, pubIdx, memErr, ooms, last >>

\* line 907: free(g_dataModels[i].value.strVal)
setHandler_Free(t) ==
    /\ Alive
    /\ inflight.calls[t].pc = "set_free"
    /\ LET p    == g_dataModels[inflight.calls[t].i].value.strVal
           next == [inflight EXCEPT !.calls[t].pc = "set_store", !.calls[t].p = p]
       IN
       IF p = NULL \/ IsLive(heap, p)
       THEN /\ heap' = Free(heap, p)
            /\ inflight' = next
            /\ UNCHANGED << pc, memErr >>
       ELSE /\ Undefined("double_free", next)
            /\ UNCHANGED heap
    /\ UNCHANGED << root, build, exitCode, g_dataModels, g_numDataModels,
                    g_totalDataModels, g_rbusHandle, g_dataElements, registered,
                    g_mem_cache, now, g_running, pubIdx, ooms, last >>

\* line 908: g_dataModels[i].value.strVal = strdup(str)
setHandler_Store(t) ==
    /\ Alive
    /\ inflight.calls[t].pc = "set_store"
    /\ LET c    == inflight.calls[t]
           text == IF IsLive(heap, c.str) THEN heap[c.str].str ELSE ""
           dup  == Strdup(heap, text, FALSE)
           next == [inflight EXCEPT !.calls[t].pc = "set_end"]
       IN
       /\ heap' = dup.heap
       /\ g_dataModels' = [g_dataModels EXCEPT ![c.i].value = [strVal |-> dup.p]]
       /\ IF IsLive(heap, c.str)
          THEN inflight' = next /\ UNCHANGED << pc, memErr >>
          ELSE Undefined("strdup_read_released", next)
    /\ UNCHANGED << root, build, exitCode, g_numDataModels,
                    g_totalDataModels, g_rbusHandle, g_dataElements, registered,
                    g_mem_cache, now, g_running, pubIdx, ooms, last >>

\* lines 909-915: free(str), and the call returns
setHandler_End(t) ==
    /\ Alive
    /\ inflight.calls[t].pc = "set_end"
    /\ LET c    == inflight.calls[t]
           next == [inflight EXCEPT !.calls[t] = IdleCall,
                                    !.replaced = IF inflight.overlapped THEN @ ELSE @ + 1]
       IN
       IF IsLive(heap, c.str)
       THEN /\ heap' = Free(heap, c.str)
            /\ inflight' = next
            /\ UNCHANGED << pc, memErr >>
       ELSE /\ Undefined("double_free", next)
            /\ UNCHANGED heap
    /\ UNCHANGED << root, build, exitCode, g_dataModels, g_numDataModels,
                    g_totalDataModels, g_rbusHandle, g_dataElements, registered,
                    g_mem_cache, now, g_running, pubIdx, ooms, last >>

\* lines 851-861: the scan finds a string entry and its strVal is read as the
\* argument of rbusValue_SetString
getHandler_Begin(t, name) ==
    /\ Serving
    /\ inflight.calls[t].pc = "idle"
    /\ inflight.started < MaxCalls
    /\ LET i == FindFirst(g_dataModels, g_numDataModels, name) IN
       /\ i # 0
       /\ IsStringType(g_dataModels[i].type)
       /\ g_dataModels[i].value.strVal # NULL
       /\ inflight' = Begun(t, [pc |-> "get_read", i |-> i, str |-> NULL,
                                p |-> g_dataModels[i].value.strVal])
    /\ UNCHANGED << root, build, pc, exitCode, g_dataModels, g_numDataModels,
                    g_totalDataModels, g_rbusHandle, g_dataElements, registered,
                    heap, g_mem_cache, now, g_running, pubIdx, memErr, ooms, last >>

\* line 860: rbusValue_SetString copies the text the pointer leads to, and
\* the call returns
getHandler_Read(t) ==
    /\ Alive
    /\ inflight.calls[t].pc = "get_read"
    /\ LET next == [inflight EXCEPT !.calls[t] = IdleCall] IN
       IF IsLive(heap, inflight.calls[t].p)
       THEN inflight' = next /\ UNCHANGED << pc, memErr >>
       ELSE Undefined("get_read_released", next)
    /\ UNCHANGED << root, build, exitCode, g_dataModels, g_numDataModels,
                    g_totalDataModels, g_rbusHandle, g_dataElements, registered,
                    heap, g_mem_cache, now, g_running, pubIdx, ooms, last >>

InitRace ==
    /\ root = Array(<< Rec("A", TYPE_STRING, JString("s0")) >>)
    /\ build = "wrap"
    /\ InitCommon

NextRace ==
    \/ Startup
    \/ Main_Publish
    \/ \E t \in Threads : \E v \in {RbusString("x")} :
          setHandler_Begin(t, "A", v)
    \/ \E t \in Threads : setHandler_Free(t)
    \/ \E t \in Threads : setHandler_Store(t)
    \/ \E t \in Threads : setHandler_End(t)
    \/ \E t \in Threads : getHandler_Begin(t, "A")
    \/ \E t \in Threads : getHandler_Read(t)

SpecRace == InitRace /\ [][NextRace]_vars

RaceFaults == {"double_free", "strdup_read_released", "get_read_released"}

\* the buffers the registry holds
HeldBuffers ==
    { g_dataModels[k].value.strVal :
        k \in { j \in 1..Len(g_dataModels) : IsStringType(g_dataModels[j].type) } } \ {NULL}

LiveBuffers == { a \in 1..Len(heap) : heap[a].live }

\* C16: as long as no handler call has begun while another was in flight, no
\* buffer is released twice and no released buffer is read, and between
\* calls the live buffers are exactly those the registry holds (each
\* replaced buffer and each temporary text has been released); a double
\* release or a read of a released buffer takes overlapping calls
C16_SerializedIsSafe ==
    (g_dataModels # NullArray /\ ~inflight.overlapped)
        => /\ memErr \cap RaceFaults = {}
           /\ (\A t \in Threads : inflight.calls[t].pc = "idle")
                 => LiveBuffers = HeldBuffers
           /\ \A t \in Threads :
                 inflight.calls[t].pc = "get_read" => IsLive(heap, inflight.calls[t].p)

\* a set that ran alone has replaced a buffer, and later, with calls
\* overlapping on the same string attribute, a get has read a released buffer
\* and a set has released a buffer a second time
C16_Witness ==
    /\ inflight.replaced >= 1
    /\ inflight.overlapped
    /\ "get_read_released" \in memErr
    /\ "double_free" \in memErr

-----------------------------------------------------------------------------
(* The empty schema, checked under SpecLoad.                                 *)

EmptySchema == root.kind = "array" /\ Len(root.items) = 0

\* C17: once the load of an array of no records has run, the process has
\* exited with code 1 and there is no registry; a registry, whenever there
\* is one, holds at least one schema entry before the 8 built-ins
C17_EmptyArrayFails ==
    /\ (EmptySchema /\ pc # "load")
          => /\ pc = "exit"
             /\ exitCode = 1
             /\ g_dataModels = NullArray
             /\ g_rbusHandle = NULL
    /\ g_dataModels # NullArray
          => /\ g_numDataModels >= 1
             /\ Len(g_dataModels) = g_numDataModels + NumBuiltIns
             /\ g_numDataModels = Len(root.items)
             /\ g_dataModels[1].getHandler = "NULL"

\* the load of an array of no records has failed with no allocation failing
C17_Witness ==
    /\ EmptySchema
    /\ last.op = "load"
    /\ last.rc = "false"
    /\ ~last.fault
    /\ pc = "exit"
    /\ exitCode = 1

-----------------------------------------------------------------------------
(* cleanup on the failing exits of main, checked under SpecLoad.             *)

\* main has returned 1 from a step after a load that succeeded
FailedAfterLoad ==
    /\ pc = "exit"
    /\ exitCode = 1
    /\ last.op = "load"
    /\ last.rc = "true"

\* C18: when main has returned 1 after a successful load, cleanup has freed
\* no element name that was never allocated, has unregistered no elements
\* that were never registered, and has left no string payload unreleased
C18_CleanupExact ==
    FailedAfterLoad => memErr = {} /\ LiveBuffers = {}

====
